---- MODULE Spec2Model ----
(***************************************************************************)
(* Model of simulator.ts: the OrderedConsumer churn harness.               *)
(*                                                                         *)
(* The program runs on a single-threaded event loop.  A callback (a timer  *)
(* firing, a platform reply arriving) runs, together with every promise    *)
(* continuation it makes ready, up to the point where each involved async  *)
(* function suspends on a pending platform call or on a timer.  No timer   *)
(* and no reply is handled in between.  An action below is one such run:   *)
(* it starts at the event that resumes an `await` and ends at the next     *)
(* `await` of a platform call or sleep.                                    *)
(*                                                                         *)
(* The messaging platform is the environment: each call's outcome (it      *)
(* returns, or it raises) is a nondeterministic choice.  Time is not       *)
(* modelled: a pending sleep may end at any moment, so every ordering of   *)
(* the timers is covered.                                                  *)
(*                                                                         *)
(* Modelled: main in both modes, waitForJetStream, createStream,           *)
(* runConsumerLoop, createOrderedConsumer, closeConsumer, printStats and   *)
(* the publishing timer of runPublisher.  The detached message reader only *)
(* counts into info.messageCount, which nothing reads, and is left out; so *)
(* is runPublisher's once-a-minute log line.                               *)
(***************************************************************************)
EXTENDS Integers, FiniteSets, Sequences, TLC

(* configured concurrency (NUM_CONSUMERS, simulator.ts:8), kept small *)
NUM_CONSUMERS == 2
(* create requests a loop issues before the model stops following it *)
MaxCycles == 2
(* waitForJetStream's default maxRetries, simulator.ts:41 *)
maxRetries == 30
(* createStream's attempt bound, simulator.ts:55 *)
StreamAttempts == 10
(* default CONSUMER_LIFETIME_MS, simulator.ts:9 *)
CONSUMER_LIFETIME_MS == 5000
(* default RECONNECT_DELAY_MS, simulator.ts:10 *)
RECONNECT_DELAY_MS == 100
(* messages per publisher tick, simulator.ts:155 *)
BatchSize == 50
(* publisher ticks the model follows *)
MaxTicks == 2

VARIABLES
    MODE,             \* process.env.MODE: "publisher" or anything else ("consumer")
    mainPc,           \* where main() is suspended
    i,                \* waitForJetStream: loop index of the probe in progress
    ready,            \* main: result of waitForJetStream ("pending" before it returns)
    probeResult,      \* outcome of the last jsm.streams.list().next() call
    attempt,          \* createStream: loop index of the attempt in progress
    streamMsg,        \* last line createStream logged: created / exists / failed
    consumerId,       \* main: index of the loop started last (for-loop variable)
    pc,               \* runConsumerLoop: per started loop, the await it is suspended on
    subscription,     \* per loop: current info.subscription is non-null
    activeConsumers,  \* keys of the activeConsumers map
    totalCreated,
    totalClosed,
    totalReconnects,
    createErrors,
    destroyErrors,    \* history: destroy() calls that raised
    cycles,           \* history: per loop, create requests issued
    open,             \* history: per loop, subscriptions created whose destroy() has not settled
    leaked,           \* the CLIENT LEAKED figure printed last: {n}, or {} before the first report
    sets,             \* history: per loop, activeConsumers.set calls of the current iteration
    deletes,          \* history: per loop, activeConsumers.delete calls of the current iteration
    destroyReqs,      \* history: per loop, destroy() calls issued in the current iteration
    slept,            \* history: per loop, the sleeps (ms) completed since its latest create request
    lastGap,          \* history: per loop, the sleeps (ms) completed between its two latest create requests
    destroysIssued,   \* history: destroy() calls issued, all loops
    msgCount,         \* runPublisher: msgCount
    published,        \* history: nc.publish calls that returned
    publishErrors     \* history: nc.publish calls that raised

vars == <<MODE, mainPc, i, ready, probeResult, attempt, streamMsg, consumerId, pc,
          subscription, activeConsumers, totalCreated, totalClosed,
          totalReconnects, createErrors, destroyErrors, cycles, open, leaked,
          sets, deletes, destroyReqs, slept, lastGap, destroysIssued,
          msgCount, published, publishErrors>>

mainVars == <<mainPc, i, ready, probeResult, attempt, streamMsg, consumerId>>
counters == <<totalCreated, totalClosed, totalReconnects, createErrors>>
loopVars == <<pc, subscription, activeConsumers, cycles, open,
              sets, deletes, destroyReqs, slept, lastGap>>
pubVars == <<MODE, msgCount, published, publishErrors>>

Started == DOMAIN pc

(* a function f extended (or overwritten) at key k *)
Put(f, k, v) == [x \in (DOMAIN f) \cup {k} |-> IF x = k THEN v ELSE f[x]]

(* no loop started yet *)
NoLoops == [x \in {} |-> 0]

Init ==
    /\ MODE \in {"consumer", "publisher"}
    /\ mainPc = "connect"
    /\ i = 0
    /\ ready = "pending"
    /\ probeResult = "none"
    /\ attempt = 0
    /\ streamMsg = "none"
    /\ consumerId = 0
    /\ pc = NoLoops
    /\ subscription = NoLoops
    /\ activeConsumers = {}
    /\ totalCreated = 0
    /\ totalClosed = 0
    /\ totalReconnects = 0
    /\ createErrors = 0
    /\ destroyErrors = 0
    /\ cycles = NoLoops
    /\ open = NoLoops
    /\ leaked = {}
    /\ sets = NoLoops
    /\ deletes = NoLoops
    /\ destroyReqs = NoLoops
    /\ slept = NoLoops
    /\ lastGap = NoLoops
    /\ destroysIssued = 0
    /\ msgCount = 0
    /\ published = 0
    /\ publishErrors = 0

(***************************************************************************)
(* main(): connection, readiness poll, stream provisioning, loop start     *)
(***************************************************************************)

(* runConsumerLoop(js, k) up to its first await: the loop's first          *)
(* js.subscribe is in flight when the call returns to main                 *)
StartLoop(k) ==
    /\ pc' = Put(pc, k, "creating")
    /\ subscription' = Put(subscription, k, FALSE)
    /\ cycles' = Put(cycles, k, 1)
    /\ open' = Put(open, k, 0)
    /\ sets' = Put(sets, k, 0)
    /\ deletes' = Put(deletes, k, 0)
    /\ destroyReqs' = Put(destroyReqs, k, 0)
    /\ slept' = Put(slept, k, << >>)
    /\ lastGap' = Put(lastGap, k, << >>)

(* variant: the loop runs one index too far (i <= NUM_CONSUMERS) *)
SpawnMoreInclusive(k) == k <= NUM_CONSUMERS

(* the for-loop condition of main *)
SpawnMore(k) == k < NUM_CONSUMERS

(* main after createStream returned: the for loop's first iteration, or,   *)
(* with nothing to start, the stats timers                                 *)
StartLoops ==
    /\ consumerId' = 0
    /\ IF SpawnMore(0)
       THEN /\ StartLoop(0)
            /\ mainPc' = "spawnSleep"
       ELSE /\ mainPc' = "running"
            /\ UNCHANGED <<pc, subscription, cycles, open,
                           sets, deletes, destroyReqs, slept, lastGap>>
    /\ UNCHANGED <<activeConsumers, counters, destroyErrors, destroysIssued,
                   pubVars, leaked>>

(* connect() resolved; consumer mode: the first readiness probe is issued *)
ConnectOk ==
    /\ MODE # "publisher"
    /\ mainPc = "connect"
    /\ mainPc' = "probing"
    /\ i' = 0
    /\ UNCHANGED <<ready, probeResult, attempt, streamMsg, consumerId,
                   loopVars, counters, destroyErrors, destroysIssued,
                   pubVars, leaked>>

(* connect() rejected: main().catch logs and exits *)
ConnectErr ==
    /\ mainPc = "connect"
    /\ mainPc' = "exited"
    /\ UNCHANGED <<i, ready, probeResult, attempt, streamMsg, consumerId,
                   loopVars, counters, destroyErrors, destroysIssued,
                   pubVars, leaked>>

(* the probe resolved: waitForJetStream returns true, main goes on to      *)
(* createStream, whose first streams.add is issued                         *)
ProbeOk ==
    /\ mainPc = "probing"
    /\ probeResult' = "ok"
    /\ ready' = "true"
    /\ i' = 0
    /\ attempt' = 0
    /\ mainPc' = "adding"
    /\ UNCHANGED <<streamMsg, consumerId, loopVars, counters, destroyErrors, destroysIssued,
                   pubVars, leaked>>

(* the probe rejected: log, sleep(2000) *)
ProbeErr ==
    /\ mainPc = "probing"
    /\ probeResult' = "err"
    /\ mainPc' = "probeSleep"
    /\ UNCHANGED <<i, ready, attempt, streamMsg, consumerId,
                   loopVars, counters, destroyErrors, destroysIssued,
                   pubVars, leaked>>

(* variant: one probe too many (i <= maxRetries) *)
ProbeAgainInclusive(k) == k <= maxRetries

(* the loop condition of waitForJetStream *)
ProbeAgain(k) == k < maxRetries

(* variant: main does not exit when waitForJetStream returns false and     *)
(* goes on to createStream                                                 *)
ProbeSleepDoneNoExit ==
    /\ mainPc = "probeSleep"
    /\ IF i + 1 < maxRetries
       THEN /\ i' = i + 1
            /\ mainPc' = "probing"
            /\ UNCHANGED <<ready, attempt>>
       ELSE /\ i' = 0
            /\ ready' = "false"
            /\ attempt' = 0
            /\ mainPc' = "adding"
    /\ UNCHANGED <<probeResult, streamMsg, consumerId,
                   loopVars, counters, destroyErrors, destroysIssued,
                   pubVars, leaked>>

(* sleep(2000) elapsed: i++, then either the next probe or return false,   *)
(* on which main calls process.exit(1)                                     *)
ProbeSleepDone ==
    /\ mainPc = "probeSleep"
    /\ IF ProbeAgain(i + 1)
       THEN /\ i' = i + 1
            /\ mainPc' = "probing"
            /\ UNCHANGED ready
       ELSE /\ i' = 0
            /\ ready' = "false"
            /\ mainPc' = "exited"
    /\ UNCHANGED <<probeResult, attempt, streamMsg, consumerId,
                   loopVars, counters, destroyErrors, destroysIssued,
                   pubVars, leaked>>

(* streams.add resolved: "created" is logged, createStream returns *)
AddOk ==
    /\ mainPc = "adding"
    /\ streamMsg' = "created"
    /\ attempt' = 0
    /\ StartLoops
    /\ UNCHANGED <<i, ready, probeResult>>

(* variant: "already exists" is logged but the return is missing, so the   *)
(* attempt is slept on and retried like any other failure                  *)
AddExistsRetries ==
    /\ mainPc = "adding"
    /\ streamMsg' = "exists"
    /\ mainPc' = "addSleep"
    /\ UNCHANGED <<i, ready, probeResult, attempt, consumerId,
                   loopVars, counters, destroyErrors, destroysIssued,
                   pubVars, leaked>>

(* streams.add rejected with "already in use" / code 10058: "already     *)
(* exists" is logged, createStream returns                                 *)
AddExists ==
    /\ mainPc = "adding"
    /\ streamMsg' = "exists"
    /\ attempt' = 0
    /\ StartLoops
    /\ UNCHANGED <<i, ready, probeResult>>

(* streams.add rejected with any other error: log, sleep(3000) *)
AddErr ==
    /\ mainPc = "adding"
    /\ streamMsg' = "failed"
    /\ mainPc' = "addSleep"
    /\ UNCHANGED <<i, ready, probeResult, attempt, consumerId,
                   loopVars, counters, destroyErrors, destroysIssued,
                   pubVars, leaked>>

(* the loop condition of createStream *)
AddAgain(k) == k < StreamAttempts

(* sleep(3000) elapsed: attempt++, then either the next streams.add or the *)
(* end of the for loop, where createStream returns to main                 *)
AddSleepDone ==
    /\ mainPc = "addSleep"
    /\ IF AddAgain(attempt + 1)
       THEN /\ attempt' = attempt + 1
            /\ mainPc' = "adding"
            /\ UNCHANGED <<consumerId, loopVars, counters, destroyErrors, destroysIssued,
                   pubVars, leaked>>
       ELSE /\ attempt' = 0
            /\ StartLoops
    /\ UNCHANGED <<i, ready, probeResult, streamMsg>>

(* main's sleep(100) elapsed: i++, then either the next loop is started or *)
(* the stats timers are set and main waits on nc.closed()                  *)
SpawnSleepDone ==
    /\ mainPc = "spawnSleep"
    /\ IF SpawnMore(consumerId + 1)
       THEN /\ consumerId' = consumerId + 1
            /\ StartLoop(consumerId + 1)
            /\ UNCHANGED mainPc
       ELSE /\ mainPc' = "running"
            /\ UNCHANGED <<consumerId, pc, subscription, cycles, open,
                           sets, deletes, destroyReqs, slept, lastGap>>
    /\ UNCHANGED <<i, ready, probeResult, attempt, streamMsg,
                   activeConsumers, counters, destroyErrors, destroysIssued,
                   pubVars, leaked>>

(***************************************************************************)
(* runConsumerLoop(js, s): create, lifetime, destroy, cooldown             *)
(***************************************************************************)

(* the process has not called process.exit *)
Alive == mainPc # "exited"

(* variant: the totalCreated++ after js.subscribe is missing *)
SubscribeOkUncounted(s) ==
    /\ Alive
    /\ s \in Started
    /\ pc[s] = "creating"
    /\ subscription' = [subscription EXCEPT ![s] = TRUE]
    /\ open' = [open EXCEPT ![s] = @ + 1]
    /\ activeConsumers' = activeConsumers \cup {s}
    /\ sets' = [sets EXCEPT ![s] = @ + 1]
    /\ pc' = [pc EXCEPT ![s] = "running"]
    /\ UNCHANGED <<mainVars, pubVars, counters, destroyErrors, destroysIssued,
                   cycles, deletes, destroyReqs, slept, lastGap, leaked>>

(* variant: the await before sleep(CONSUMER_LIFETIME_MS) is missing, so    *)
(* closeConsumer is called, and destroy() issued, right after the create   *)
SubscribeOkNoLifetime(s) ==
    /\ Alive
    /\ s \in Started
    /\ pc[s] = "creating"
    /\ subscription' = [subscription EXCEPT ![s] = TRUE]
    /\ totalCreated' = totalCreated + 1
    /\ open' = [open EXCEPT ![s] = @ + 1]
    /\ activeConsumers' = activeConsumers \cup {s}
    /\ sets' = [sets EXCEPT ![s] = @ + 1]
    /\ destroyReqs' = [destroyReqs EXCEPT ![s] = @ + 1]
    /\ destroysIssued' = destroysIssued + 1
    /\ pc' = [pc EXCEPT ![s] = "destroying"]
    /\ UNCHANGED <<mainVars, pubVars, totalClosed, totalReconnects, createErrors,
                   destroyErrors, cycles, deletes, slept, lastGap, leaked>>

(* variant: createErrors counts consecutive failures and is cleared by a   *)
(* create that succeeds                                                    *)
SubscribeOkResetsErrors(s) ==
    /\ Alive
    /\ s \in Started
    /\ pc[s] = "creating"
    /\ subscription' = [subscription EXCEPT ![s] = TRUE]
    /\ totalCreated' = totalCreated + 1
    /\ createErrors' = 0
    /\ open' = [open EXCEPT ![s] = @ + 1]
    /\ activeConsumers' = activeConsumers \cup {s}
    /\ sets' = [sets EXCEPT ![s] = @ + 1]
    /\ pc' = [pc EXCEPT ![s] = "running"]
    /\ UNCHANGED <<mainVars, pubVars, totalClosed, totalReconnects,
                   destroyErrors, destroysIssued, cycles, deletes, destroyReqs,
                   slept, lastGap, leaked>>

(* js.subscribe resolved: info.subscription is set, totalCreated++, the    *)
(* detached message reader is started, createOrderedConsumer returns; the  *)
(* loop registers info and starts sleep(CONSUMER_LIFETIME_MS)              *)
SubscribeOk(s) ==
    /\ Alive
    /\ s \in Started
    /\ pc[s] = "creating"
    /\ subscription' = [subscription EXCEPT ![s] = TRUE]
    /\ totalCreated' = totalCreated + 1
    /\ open' = [open EXCEPT ![s] = @ + 1]
    /\ activeConsumers' = activeConsumers \cup {s}
    /\ sets' = [sets EXCEPT ![s] = @ + 1]
    /\ pc' = [pc EXCEPT ![s] = "running"]
    /\ UNCHANGED <<mainVars, pubVars, totalClosed, totalReconnects, createErrors,
                   destroyErrors, destroysIssued, cycles, deletes, destroyReqs,
                   slept, lastGap, leaked>>

(* variant: the catch counts the error and rethrows; the rejection of the  *)
(* loop's promise is unhandled and ends the process                        *)
SubscribeErrRethrows(s) ==
    /\ Alive
    /\ s \in Started
    /\ pc[s] = "creating"
    /\ createErrors' = createErrors + 1
    /\ mainPc' = "exited"
    /\ UNCHANGED <<i, ready, probeResult, attempt, streamMsg, consumerId,
                   loopVars, pubVars, totalCreated, totalClosed, totalReconnects,
                   destroyErrors, destroysIssued, leaked>>

(* variant: a failed create is retried at once (continue), while the model *)
(* still follows the loop                                                  *)
SubscribeErrRetriesAtOnce(s) ==
    /\ Alive
    /\ s \in Started
    /\ pc[s] = "creating"
    /\ createErrors' = createErrors + 1
    /\ IF cycles[s] < MaxCycles
       THEN /\ cycles' = [cycles EXCEPT ![s] = @ + 1]
            /\ lastGap' = [lastGap EXCEPT ![s] = slept[s]]
            /\ UNCHANGED <<pc, activeConsumers, sets>>
       ELSE /\ activeConsumers' = activeConsumers \cup {s}
            /\ sets' = [sets EXCEPT ![s] = @ + 1]
            /\ pc' = [pc EXCEPT ![s] = "running"]
            /\ UNCHANGED <<cycles, lastGap>>
    /\ UNCHANGED <<mainVars, pubVars, subscription, totalCreated, totalClosed,
                   totalReconnects, destroyErrors, destroysIssued, open,
                   deletes, destroyReqs, slept, leaked>>

(* variant: the loop registers info only when the create returned a        *)
(* subscription                                                            *)
SubscribeErrSkipsRegister(s) ==
    /\ Alive
    /\ s \in Started
    /\ pc[s] = "creating"
    /\ createErrors' = createErrors + 1
    /\ pc' = [pc EXCEPT ![s] = "running"]
    /\ UNCHANGED <<mainVars, pubVars, subscription, activeConsumers, sets,
                   totalCreated, totalClosed, totalReconnects, destroyErrors,
                   destroysIssued, cycles, open, deletes, destroyReqs, slept,
                   lastGap, leaked>>

(* js.subscribe rejected: createErrors++, info.subscription stays null,    *)
(* createOrderedConsumer returns info all the same; the loop registers it  *)
(* and starts sleep(CONSUMER_LIFETIME_MS)                                  *)
SubscribeErr(s) ==
    /\ Alive
    /\ s \in Started
    /\ pc[s] = "creating"
    /\ createErrors' = createErrors + 1
    /\ activeConsumers' = activeConsumers \cup {s}
    /\ sets' = [sets EXCEPT ![s] = @ + 1]
    /\ pc' = [pc EXCEPT ![s] = "running"]
    /\ UNCHANGED <<mainVars, pubVars, subscription, totalCreated, totalClosed,
                   totalReconnects, destroyErrors, destroysIssued, cycles, open,
                   deletes, destroyReqs, slept, lastGap, leaked>>

(* variant: activeConsumers.delete(id) is missing *)
UnregisterKeepsEntry(s) ==
    /\ UNCHANGED <<activeConsumers, deletes>>
    /\ totalReconnects' = totalReconnects + 1
    /\ pc' = [pc EXCEPT ![s] = "cooldown"]

(* variant: totalReconnects++ is missing *)
UnregisterUncounted(s) ==
    /\ activeConsumers' = activeConsumers \ {s}
    /\ deletes' = [deletes EXCEPT ![s] = @ + 1]
    /\ UNCHANGED totalReconnects
    /\ pc' = [pc EXCEPT ![s] = "cooldown"]

(* the tail of an iteration: activeConsumers.delete(id), totalReconnects++,*)
(* sleep(RECONNECT_DELAY_MS)                                               *)
Unregister(s) ==
    /\ activeConsumers' = activeConsumers \ {s}
    /\ deletes' = [deletes EXCEPT ![s] = @ + 1]
    /\ totalReconnects' = totalReconnects + 1
    /\ pc' = [pc EXCEPT ![s] = "cooldown"]

(* variant: the loop forgets closeConsumer and goes on to the tail *)
LifetimeElapsedSkipsClose(s) ==
    /\ Alive
    /\ s \in Started
    /\ pc[s] = "running"
    /\ slept' = [slept EXCEPT ![s] = Append(@, CONSUMER_LIFETIME_MS)]
    /\ Unregister(s)
    /\ UNCHANGED <<mainVars, pubVars, subscription, totalCreated, totalClosed,
                   createErrors, destroyErrors, destroysIssued, cycles, open,
                   sets, destroyReqs, lastGap, leaked>>

(* variant: closeConsumer has totalClosed++ after the if, so a null        *)
(* subscription is counted as closed                                       *)
LifetimeElapsedCountsNull(s) ==
    /\ Alive
    /\ s \in Started
    /\ pc[s] = "running"
    /\ slept' = [slept EXCEPT ![s] = Append(@, CONSUMER_LIFETIME_MS)]
    /\ IF subscription[s]
       THEN /\ pc' = [pc EXCEPT ![s] = "destroying"]
            /\ destroyReqs' = [destroyReqs EXCEPT ![s] = @ + 1]
            /\ destroysIssued' = destroysIssued + 1
            /\ UNCHANGED <<activeConsumers, deletes, totalReconnects, totalClosed>>
       ELSE /\ totalClosed' = totalClosed + 1
            /\ Unregister(s)
            /\ UNCHANGED <<destroyReqs, destroysIssued>>
    /\ UNCHANGED <<mainVars, pubVars, subscription, totalCreated,
                   createErrors, destroyErrors, cycles, open, sets, lastGap, leaked>>

(* variant: closeConsumer has no null check before destroy() (the call is  *)
(* made through an optional chain and resolves or raises like any other)   *)
LifetimeElapsedDestroysNull(s) ==
    /\ Alive
    /\ s \in Started
    /\ pc[s] = "running"
    /\ slept' = [slept EXCEPT ![s] = Append(@, CONSUMER_LIFETIME_MS)]
    /\ pc' = [pc EXCEPT ![s] = "destroying"]
    /\ destroyReqs' = [destroyReqs EXCEPT ![s] = @ + 1]
    /\ destroysIssued' = destroysIssued + 1
    /\ open' = [open EXCEPT ![s] = IF subscription[s] THEN @ ELSE @ + 1]
    /\ UNCHANGED <<mainVars, pubVars, subscription, activeConsumers, counters,
                   destroyErrors, cycles, sets, deletes, lastGap, leaked>>

(* sleep(CONSUMER_LIFETIME_MS) elapsed: closeConsumer(info).  With a       *)
(* subscription, destroy() is issued and awaited; with none, closeConsumer *)
(* returns at once and the iteration's tail runs                           *)
LifetimeElapsed(s) ==
    /\ Alive
    /\ s \in Started
    /\ pc[s] = "running"
    /\ slept' = [slept EXCEPT ![s] = Append(@, CONSUMER_LIFETIME_MS)]
    /\ IF subscription[s]
       THEN /\ pc' = [pc EXCEPT ![s] = "destroying"]
            /\ destroyReqs' = [destroyReqs EXCEPT ![s] = @ + 1]
            /\ destroysIssued' = destroysIssued + 1
            /\ UNCHANGED <<activeConsumers, deletes, totalReconnects>>
       ELSE /\ Unregister(s)
            /\ UNCHANGED <<destroyReqs, destroysIssued>>
    /\ UNCHANGED <<mainVars, pubVars, subscription, totalCreated, totalClosed,
                   createErrors, destroyErrors, cycles, open, sets, lastGap, leaked>>

(* variant: the totalClosed++ after destroy() is missing *)
DestroyOkUncounted(s) ==
    /\ Alive
    /\ s \in Started
    /\ pc[s] = "destroying"
    /\ open' = [open EXCEPT ![s] = @ - 1]
    /\ Unregister(s)
    /\ UNCHANGED <<mainVars, pubVars, subscription, totalCreated, totalClosed,
                   createErrors, destroyErrors, destroysIssued, cycles, sets,
                   destroyReqs, slept, lastGap, leaked>>

(* destroy() resolved: totalClosed++, then the iteration's tail *)
DestroyOk(s) ==
    /\ Alive
    /\ s \in Started
    /\ pc[s] = "destroying"
    /\ totalClosed' = totalClosed + 1
    /\ open' = [open EXCEPT ![s] = @ - 1]
    /\ Unregister(s)
    /\ UNCHANGED <<mainVars, pubVars, subscription, totalCreated, createErrors,
                   destroyErrors, destroysIssued, cycles, sets, destroyReqs,
                   slept, lastGap, leaked>>

(* variant: totalClosed++ sits in a finally, so a raised destroy() counts *)
DestroyErrCounts(s) ==
    /\ Alive
    /\ s \in Started
    /\ pc[s] = "destroying"
    /\ destroyErrors' = destroyErrors + 1
    /\ totalClosed' = totalClosed + 1
    /\ open' = [open EXCEPT ![s] = @ - 1]
    /\ Unregister(s)
    /\ UNCHANGED <<mainVars, pubVars, subscription, totalCreated, createErrors,
                   destroysIssued, cycles, sets, destroyReqs, slept, lastGap,
                   leaked>>

(* destroy() rejected: the empty catch swallows it, then the iteration's   *)
(* tail                                                                    *)
DestroyErr(s) ==
    /\ Alive
    /\ s \in Started
    /\ pc[s] = "destroying"
    /\ destroyErrors' = destroyErrors + 1
    /\ open' = [open EXCEPT ![s] = @ - 1]
    /\ Unregister(s)
    /\ UNCHANGED <<mainVars, pubVars, subscription, totalCreated, totalClosed,
                   createErrors, destroysIssued, cycles, sets, destroyReqs,
                   slept, lastGap, leaked>>

(* sleep(RECONNECT_DELAY_MS) elapsed: the next iteration builds a fresh    *)
(* info (subscription null) and issues js.subscribe                        *)
CooldownElapsed(s) ==
    /\ Alive
    /\ s \in Started
    /\ pc[s] = "cooldown"
    /\ cycles[s] < MaxCycles
    /\ cycles' = [cycles EXCEPT ![s] = @ + 1]
    /\ subscription' = [subscription EXCEPT ![s] = FALSE]
    /\ lastGap' = [lastGap EXCEPT ![s] = Append(slept[s], RECONNECT_DELAY_MS)]
    /\ slept' = [slept EXCEPT ![s] = << >>]
    /\ sets' = [sets EXCEPT ![s] = 0]
    /\ deletes' = [deletes EXCEPT ![s] = 0]
    /\ destroyReqs' = [destroyReqs EXCEPT ![s] = 0]
    /\ pc' = [pc EXCEPT ![s] = "creating"]
    /\ UNCHANGED <<mainVars, pubVars, activeConsumers, counters, destroyErrors,
                   destroysIssued, open, leaked>>

(***************************************************************************)
(* runPublisher: the publishing timer                                      *)
(***************************************************************************)

(* connect() resolved; publisher mode: runPublisher sets its timers and    *)
(* returns, main waits on nc.closed()                                      *)
ConnectOkPublisher ==
    /\ MODE = "publisher"
    /\ mainPc = "connect"
    /\ mainPc' = "publishing"
    /\ UNCHANGED <<i, ready, probeResult, attempt, streamMsg, consumerId,
                   loopVars, counters, destroyErrors, destroysIssued,
                   pubVars, leaked>>

(* the 100 ms timer fired: the callback builds and publishes BatchSize     *)
(* messages in one synchronous loop.  k publish calls return; with         *)
(* k < BatchSize the next one raises: its payload has taken a sequence     *)
(* number already, nothing catches the exception, and an uncaught          *)
(* exception in a timer callback ends the process                          *)
PublishTick ==
    /\ mainPc = "publishing"
    /\ msgCount < MaxTicks * BatchSize
    /\ \E k \in 0 .. BatchSize :
          /\ published' = published + k
          /\ IF k = BatchSize
             THEN /\ msgCount' = msgCount + BatchSize
                  /\ UNCHANGED <<publishErrors, mainPc>>
             ELSE /\ msgCount' = msgCount + k + 1
                  /\ publishErrors' = publishErrors + 1
                  /\ mainPc' = "exited"
    /\ UNCHANGED <<MODE, i, ready, probeResult, attempt, streamMsg, consumerId,
                   loopVars, counters, destroyErrors, destroysIssued, leaked>>

(***************************************************************************)
(* printStats: the Reporter timer                                          *)
(***************************************************************************)

(* variant: the registry's size is not subtracted *)
LeakIgnoresRegistry == totalCreated - totalClosed

(* the CLIENT LEAKED figure *)
Leak == totalCreated - totalClosed - Cardinality(activeConsumers)

(* a stats timer fired (they are set once every loop has been started) *)
PrintStats ==
    /\ mainPc = "running"
    /\ leaked' = {Leak}
    /\ UNCHANGED <<mainVars, loopVars, counters, destroyErrors, destroysIssued, pubVars>>

Next ==
    \/ ConnectOk
    \/ ConnectOkPublisher
    \/ ConnectErr
    \/ ProbeOk
    \/ ProbeErr
    \/ ProbeSleepDone
    \/ AddOk
    \/ AddExists
    \/ AddErr
    \/ AddSleepDone
    \/ SpawnSleepDone
    \/ \E s \in Started : SubscribeOk(s)
    \/ \E s \in Started : SubscribeErr(s)
    \/ \E s \in Started : LifetimeElapsed(s)
    \/ \E s \in Started : DestroyOk(s)
    \/ \E s \in Started : DestroyErr(s)
    \/ \E s \in Started : CooldownElapsed(s)
    \/ PrintStats
    \/ PublishTick

Spec == Init /\ [][Next]_vars

(***************************************************************************)
(* The scenario of one permanently failing slot: slot FaultySlot's create  *)
(* is rejected on every attempt and every other call succeeds.  Timers     *)
(* fire and pending calls settle, so every step that stays possible is     *)
(* eventually taken (weak fairness per loop and for main).                 *)
(***************************************************************************)

(* the consumerId values main hands out *)
Slots == 0 .. (NUM_CONSUMERS - 1)

(* the slot whose creates fail: the first one started *)
FaultySlot == CHOOSE s \in Slots : \A t \in Slots : s <= t

MainStepOk ==
    \/ ConnectOk
    \/ ProbeOk
    \/ AddOk
    \/ SpawnSleepDone

LoopStepFaulty(s) ==
    \/ (s = FaultySlot /\ SubscribeErr(s))
    \/ (s # FaultySlot /\ SubscribeOk(s))
    \/ LifetimeElapsed(s)
    \/ DestroyOk(s)
    \/ CooldownElapsed(s)

NextFaulty ==
    \/ MainStepOk
    \/ \E s \in Started : LoopStepFaulty(s)
    \/ PrintStats

(* the start of a run in consumer mode *)
InitConsumer == Init /\ MODE = "consumer"

SpecFaulty ==
    /\ InitConsumer
    /\ [][NextFaulty]_vars
    /\ WF_vars(MainStepOk)
    /\ \A s \in Slots : WF_vars(LoopStepFaulty(s))
    /\ WF_vars(PrintStats)

(***************************************************************************)
(* Properties                                                              *)
(***************************************************************************)

(* C1: with no create rejected and no destroy raised so far, every figure  *)
(* the Reporter has printed is 0                                           *)
C1_NoClientLeak ==
    (createErrors = 0 /\ destroyErrors = 0) => \A n \in leaked : n = 0

(* a report printed while one loop holds a subscription and another has    *)
(* completed a cycle, all calls having succeeded                           *)
C1_Witness ==
    /\ createErrors = 0
    /\ destroyErrors = 0
    /\ leaked = {0}
    /\ totalClosed >= 1
    /\ Cardinality(activeConsumers) >= 1
    /\ totalCreated = totalClosed + Cardinality(activeConsumers)

(* a loop's destroy() settles in this step *)
Settles(s) == pc[s] = "destroying" /\ pc'[s] # "destroying"

C3_ClosedOnlyOnReturn ==
    [][/\ totalClosed' # totalClosed =>
             /\ totalClosed' = totalClosed + 1
             /\ destroyErrors' = destroyErrors
             /\ \E s \in Started : Settles(s)
       /\ destroyErrors' # destroyErrors => totalClosed' = totalClosed]_vars

(* a destroy() has raised, a create has failed and its loop has gone       *)
(* through the destroying step, and nothing was counted as closed          *)
C3_Witness ==
    /\ destroyErrors >= 1
    /\ createErrors >= 1
    /\ totalReconnects >= 2
    /\ totalClosed = 0

(* C4: totalCreated >= totalClosed in every state *)
C4_CreatedAtLeastClosed == totalCreated >= totalClosed

(* closures have been counted and they equal the creations *)
C4_Witness ==
    /\ totalClosed >= 2
    /\ totalCreated = totalClosed
    /\ createErrors >= 1

(* C5: the registry's keys are ids of started loops, loops carry the ids   *)
(* 0 .. NUM_CONSUMERS-1 only, and so the registry has at most              *)
(* NUM_CONSUMERS entries                                                   *)
C5_RegistryBounded ==
    /\ activeConsumers \subseteq Started
    /\ Started \subseteq Slots
    /\ Cardinality(activeConsumers) <= NUM_CONSUMERS

(* every slot is registered at once, one of them in a later cycle *)
C5_Witness ==
    /\ Cardinality(activeConsumers) = NUM_CONSUMERS
    /\ \E s \in Started : cycles[s] > 1

(* C6: a loop never has more than one subscription whose destroy() has not *)
(* settled, and has none while a create request of it is in flight or it   *)
(* is cooling down                                                         *)
C6_DestroyBeforeNextCreate ==
    \A s \in Started :
        /\ open[s] \in {0, 1}
        /\ pc[s] \in {"creating", "cooldown"} => open[s] = 0

(* a loop issues its second create after its first subscription was        *)
(* created and destroyed (the other loops have created nothing)            *)
C6_Witness ==
    \E s \in Started :
        /\ cycles[s] = 2
        /\ pc[s] = "creating"
        /\ totalCreated = 1
        /\ totalClosed + destroyErrors = 1
        /\ \A t \in Started \ {s} : cycles[t] = 1 /\ pc[t] = "creating"

(* C7: with slot FaultySlot failing every create and all else succeeding,  *)
(* createErrors changes only in a step of that slot's create, totalCreated *)
(* never changes in a step of that slot, the process never exits, and      *)
(* every other slot goes on to complete all the cycles the model follows   *)
C7_FaultIsolated ==
    /\ [][/\ createErrors' # createErrors =>
                /\ pc[FaultySlot] = "creating"
                /\ pc'[FaultySlot] = "running"
                /\ \A t \in Started \ {FaultySlot} : pc'[t] = pc[t]
          /\ totalCreated' # totalCreated =>
                (FaultySlot \in Started => pc'[FaultySlot] = pc[FaultySlot])
          /\ mainPc' # "exited"]_vars
    /\ \A s \in Slots \ {FaultySlot} :
          <>(s \in Started /\ cycles[s] = MaxCycles /\ pc[s] = "cooldown")

(* the faulty slot has failed every one of its attempts while another slot *)
(* has completed all its cycles                                            *)
C7_Witness ==
    /\ createErrors = MaxCycles
    /\ totalCreated = MaxCycles * (NUM_CONSUMERS - 1)
    /\ totalClosed = totalCreated
    /\ \A s \in Slots : s \in Started /\ pc[s] = "cooldown"

(* createStream has returned or the process has ended, and the last thing  *)
(* createStream logged is a failed attempt: every attempt failed           *)
StreamNeverCreated == streamMsg = "failed" /\ mainPc \notin {"adding", "addSleep"}

(* C8 as stated: when every stream creation attempt fails with an error    *)
(* other than "already exists", the process aborts and no loop is started  *)
C8_ProvisioningFailureAborts ==
    StreamNeverCreated => (mainPc = "exited" /\ Started = {})

(* C9: the step in which createStream gets the "already exists" answer     *)
(* returns from it (no sleep, no further attempt, no exit) and changes no  *)
(* counter and no registry entry; once that answer is logged no further    *)
(* attempt is ever made                                                    *)
C9_ProvisioningIdempotent ==
    [][/\ (streamMsg' = "exists" /\ streamMsg # "exists") =>
             /\ mainPc' \notin {"adding", "addSleep", "exited"}
             /\ UNCHANGED <<counters, activeConsumers>>
       /\ streamMsg = "exists" =>
             /\ streamMsg' = "exists"
             /\ mainPc' \notin {"adding", "addSleep"}]_vars

(* "already exists" was the answer and every loop has been started *)
C9_Witness ==
    /\ streamMsg = "exists"
    /\ mainPc = "running"
    /\ Started = Slots

(* main is inside waitForJetStream *)
Polling == mainPc \in {"probing", "probeSleep"}

(* C10: a probe that succeeds makes waitForJetStream return true in the    *)
(* same step and no probe follows it; false is returned exactly when the   *)
(* sleep after the maxRetries-th failed probe ends; a probe in flight is   *)
(* at most the maxRetries-th                                               *)
C10_WaitReady ==
    [][/\ (mainPc = "probing" /\ probeResult' = "ok") => (ready' = "true" /\ ~Polling')
       /\ probeResult = "ok" => (~Polling' /\ ready' = "true" /\ probeResult' = "ok")
       /\ (ready' = "false" /\ ready # "false") =>
             (mainPc = "probeSleep" /\ i = maxRetries - 1 /\ probeResult = "err")
       /\ (mainPc = "probeSleep" /\ i = maxRetries - 1) => ready' = "false"
       /\ Polling' => i' + 1 <= maxRetries]_vars

(* all maxRetries probes failed and false was returned *)
C10_Witness ==
    /\ ready = "false"
    /\ probeResult = "err"
    /\ mainPc = "exited"

(* no create has been rejected and no destroy() has raised *)
NoErrors == createErrors = 0 /\ destroyErrors = 0

(* C11: with zero errors, a loop has issued no destroy() in its current    *)
(* iteration before the lifetime sleep ends and exactly one after; that    *)
(* destroy() follows a completed sleep(CONSUMER_LIFETIME_MS); and between  *)
(* two consecutive create requests of a loop the sleeps completed are one  *)
(* of CONSUMER_LIFETIME_MS and then one of RECONNECT_DELAY_MS              *)
C11_OneCreateOneDestroyPerCycle ==
    NoErrors =>
       \A s \in Started :
          /\ destroyReqs[s] = (IF pc[s] \in {"destroying", "cooldown"} THEN 1 ELSE 0)
          /\ destroyReqs[s] = 1 => slept[s] = <<CONSUMER_LIFETIME_MS>>
          /\ destroyReqs[s] = 0 => slept[s] = << >>
          /\ cycles[s] > 1 => lastGap[s] = <<CONSUMER_LIFETIME_MS, RECONNECT_DELAY_MS>>

(* with zero errors a loop has completed one cycle and the destroy of its  *)
(* second                                                                  *)
C11_Witness ==
    /\ NoErrors
    /\ \E s \in Started : cycles[s] = 2 /\ pc[s] = "cooldown" /\ totalClosed >= 2

(* C12: every step leaves each of totalCreated, totalClosed,               *)
(* totalReconnects and createErrors unchanged or adds one to it            *)
C12_CountersMonotone ==
    [][/\ totalCreated' \in {totalCreated, totalCreated + 1}
       /\ totalClosed' \in {totalClosed, totalClosed + 1}
       /\ totalReconnects' \in {totalReconnects, totalReconnects + 1}
       /\ createErrors' \in {createErrors, createErrors + 1}]_vars

(* every counter has moved *)
C12_Witness ==
    /\ totalCreated >= 2
    /\ totalClosed >= 1
    /\ totalReconnects >= 2
    /\ createErrors >= 1

(* C13 as stated: after a publish call has failed the process is still     *)
(* publishing and the batch of the failed call was completed               *)
C13_PublishFailureSwallowed ==
    publishErrors > 0 => (mainPc = "publishing" /\ msgCount % BatchSize = 0)

(* C14 as stated: the registry holds only slots whose latest create        *)
(* succeeded                                                               *)
C14_FailedCreateNotRegistered ==
    \A s \in activeConsumers : subscription[s]

(* C15: the last sleep completed between two consecutive create requests   *)
(* of a loop is the cooldown sleep of RECONNECT_DELAY_MS, whatever the     *)
(* outcome of the first of them                                            *)
C15_CooldownBeforeNextCreate ==
    \A s \in Started :
        cycles[s] > 1 =>
           /\ Len(lastGap[s]) >= 1
           /\ lastGap[s][Len(lastGap[s])] = RECONNECT_DELAY_MS

(* a loop has issued its second create after its first one failed (no      *)
(* create has succeeded, the other loops are still in their first)         *)
C15_Witness ==
    \E s \in Started :
        /\ cycles[s] = 2
        /\ totalCreated = 0
        /\ createErrors = 1
        /\ \A t \in Started \ {s} : cycles[t] = 1 /\ pc[t] = "creating"

(* C16: in its current iteration a loop has called activeConsumers.set     *)
(* once as soon as its create attempt has settled and not before, and      *)
(* activeConsumers.delete once as soon as its destroy step is over and not *)
(* before; the slot is in the registry exactly in between                  *)
C16_EntryAddedAndRemovedOnce ==
    \A s \in Started :
        /\ sets[s] = (IF pc[s] = "creating" THEN 0 ELSE 1)
        /\ deletes[s] = (IF pc[s] = "cooldown" THEN 1 ELSE 0)
        /\ s \in activeConsumers <=> (sets[s] = 1 /\ deletes[s] = 0)

(* a destroy() has raised, another has returned, a create has failed, and  *)
(* every entry has been removed                                            *)
C16_Witness ==
    /\ destroyErrors >= 1
    /\ totalClosed >= 1
    /\ createErrors >= 1
    /\ activeConsumers = {}
    /\ Started = Slots
    /\ \A s \in Started : pc[s] = "cooldown"

(* C17: a loop exists only after waitForJetStream returned true and        *)
(* createStream returned; when waitForJetStream returns false the process  *)
(* has exited, no streams.add was ever issued and no loop was started      *)
C17_GateBeforeLoops ==
    /\ Started # {} =>
          /\ ready = "true"
          /\ probeResult = "ok"
          /\ streamMsg # "none"
          /\ mainPc \in {"spawnSleep", "running", "exited"}
    /\ ready = "false" =>
          /\ mainPc = "exited"
          /\ streamMsg = "none"
          /\ Started = {}
    /\ mainPc \in {"adding", "addSleep"} => ready = "true"

(* the loops run after the poll returned true and createStream returned    *)
(* (here after its last attempt failed)                                    *)
C17_Witness ==
    /\ Started = Slots
    /\ ready = "true"
    /\ streamMsg = "failed"
    /\ totalCreated >= 1

(* C18 as stated: totalReconnects changes only in the step that ends the   *)
(* cooldown sleep and issues the next create                               *)
C18_ReconnectCountedAfterCooldown ==
    [][totalReconnects' # totalReconnects =>
          \E s \in Started : pc[s] = "cooldown" /\ pc'[s] = "creating"]_vars

(* C18 amended: totalReconnects grows by one exactly in the step in which  *)
(* a loop leaves its destroy step and starts the cooldown sleep (the step  *)
(* that removes its registry entry), once per iteration; the step that     *)
(* ends the cooldown sleep leaves it unchanged                             *)
C18_ReconnectCountedBeforeCooldown ==
    [][/\ totalReconnects' # totalReconnects =>
             /\ totalReconnects' = totalReconnects + 1
             /\ \E s \in Started :
                   /\ pc[s] \in {"running", "destroying"}
                   /\ pc'[s] = "cooldown"
                   /\ deletes'[s] = 1
       /\ \A s \in Started :
             /\ (pc[s] # "cooldown" /\ pc'[s] = "cooldown") =>
                   totalReconnects' = totalReconnects + 1
             /\ (pc[s] = "cooldown" /\ pc'[s] # "cooldown") =>
                   totalReconnects' = totalReconnects]_vars

(* a loop is in its first cooldown sleep and its reconnect is counted      *)
C18_Witness ==
    \E s \in Started :
        /\ pc[s] = "cooldown"
        /\ cycles[s] = 1
        /\ totalReconnects = 1
        /\ \A t \in Started \ {s} : cycles[t] = 1 /\ pc[t] \in {"creating", "running"}

(* C19: a loop issues at most one destroy() per iteration and only with a  *)
(* subscription its create returned; destroy() calls issued never exceed   *)
(* totalCreated, and each is counted in totalClosed at most once: those    *)
(* issued are those that returned, those that raised and those in flight   *)
C19_DestroyOnlyCreated ==
    /\ \A s \in Started :
          /\ destroyReqs[s] \in {0, 1}
          /\ destroyReqs[s] = 1 => subscription[s]
    /\ destroysIssued <= totalCreated
    /\ destroysIssued = totalClosed + destroyErrors
                        + Cardinality({s \in Started : pc[s] = "destroying"})

(* every created subscription has had its destroy() issued, one create     *)
(* having failed                                                           *)
C19_Witness ==
    /\ destroysIssued >= 2
    /\ destroysIssued = totalCreated
    /\ createErrors >= 1
    /\ totalClosed >= 1

(* registered slots whose create failed *)
NullRegistered == {s \in activeConsumers : ~subscription[s]}

(* C20: whenever the Reporter can tick, the figure it computes equals the  *)
(* destroy() calls that have raised minus the registered slots whose       *)
(* create failed                                                           *)
C20_LeakFigure ==
    mainPc = "running" => Leak = destroyErrors - Cardinality(NullRegistered)

(* a report printed after a destroy() raised and while a slot whose create *)
(* failed is registered                                                    *)
C20_Witness ==
    /\ mainPc = "running"
    /\ destroyErrors >= 1
    /\ Cardinality(NullRegistered) >= 1
    /\ leaked = {Leak}

(* C21: at every point where a timer can fire, hence at every Reporter    *)
(* tick, the create attempts that have completed (totalCreated of them     *)
(* returned, createErrors of them raised) less totalReconnects equal the   *)
(* size of the registry: an attempt is registered in the run that counts   *)
(* it, and its entry is removed in the run that counts the reconnect,      *)
(* whatever the other slots are doing                                      *)
C21_AttemptsBalanceRegistry ==
    totalCreated + createErrors - totalReconnects = Cardinality(activeConsumers)

(* a report printed while one slot is registered and another is in its     *)
(* cooldown, after creates that returned, a create that raised and         *)
(* reconnects                                                              *)
C21_Witness ==
    /\ mainPc = "running"
    /\ leaked = {Leak}
    /\ totalCreated >= 1
    /\ createErrors >= 1
    /\ totalReconnects >= 2
    /\ \E s \in Started : s \in activeConsumers
    /\ \E t \in Started : pc[t] = "cooldown"

====
